---- MODULE Spec2Model ----
(***************************************************************************)
(* A model of scrambler.py: the text Scrambler (feed / scramble / flush),  *)
(* the HTMLScrambler event handlers with their tag builder, and the        *)
(* reassembly of scrambled text and markup, and the CGI entry point main() *)
(* with the module-level scramble(url).                                    *)
(*                                                                         *)
(* A Python str is a sequence of tokens.  Text that reaches the Scrambler  *)
(* is a sequence of one-character tokens; a character outside ASCII is     *)
(* named by its code point ("U+2102").  URLs and markup are sequences of   *)
(* tokens, each token either free of the characters that quote() and       *)
(* html.escape() rewrite or exactly one such character, so that both       *)
(* conversions act token by token as they act character by character.      *)
(***************************************************************************)
EXTENDS Integers, Sequences, FiniteSets, TLC

VARIABLES
    scr,              \* the Scrambler object: _buf, _alpha, _cons, _vowels, _digits, _preserve_letter_distribution
    fed,              \* text fed to scr since it was last cleared
    lastIn,           \* the text the last Scrambler.scramble() replayed
    out,              \* the list `text` of that flush(), one str per position of _buf
    drawn,            \* per position, the str that flush() took out of a class buffer ("" if none)
    scrambled,        \* scramble() has returned and nothing was fed since
    h_buf,            \* HTMLScrambler._buf: text runs and the marker "<>"
    h_html,           \* HTMLScrambler._html: the markup queue
    is_scrambling,    \* HTMLScrambler._is_scrambling
    is_script,        \* HTMLScrambler._is_script
    is_xhtml,         \* HTMLScrambler._is_xhtml
    is_honeypot,      \* HTMLScrambler._is_honeypot
    suppress_scripts, \* HTMLScrambler._suppress_scripts
    events,           \* the tokenizer events handled so far, in order
    doc,              \* the list `text` of HTMLScrambler.scramble(), each str tagged chunk or markup
    done,             \* HTMLScrambler.scramble() has returned
    environ,          \* the CGI environment the module was loaded in
    form,             \* the query string of the request: url and honeypot
    pc,               \* where the request is: "start", "urlopen", "done", "failed"
    responses,        \* the responses printed for the request, in order
    fetches,          \* the URLs given to urlopen(), in order
    src               \* what urlopen() answered: a response with its Content-Type, or HTTPError

scrVars == <<scr, fed, lastIn, out, drawn, scrambled>>

htmlVars ==
    <<h_buf, h_html, is_scrambling, is_script, is_xhtml, is_honeypot,
      suppress_scripts, events, doc, done>>

mainVars == <<environ, form, pc, responses, fetches, src>>

vars == <<scrVars, htmlVars, mainVars>>

-----------------------------------------------------------------------------
(* Bounds *)

MaxTextLen == 3

MaxEvents == 3

MaxTagEvents == 2

-----------------------------------------------------------------------------
(* Characters: str.isalpha, str.isdigit, str.isupper, str.lower,           *)
(* str.upper and unicodedata.normalize("NFKD", .)[0] on the characters     *)
(* of the model.  U+2102 is DOUBLE-STRUCK CAPITAL C, U+00DF is LATIN       *)
(* SMALL LETTER SHARP S, U+0130 is LATIN CAPITAL LETTER I WITH DOT ABOVE,  *)
(* U+0307 is COMBINING DOT ABOVE.                                          *)

AsciiLetters == {"a", "e", "b", "s", "i", "c", "A", "E", "B", "S", "I", "C"}

isalpha(c) == c \in AsciiLetters \cup {"U+2102", "U+00DF", "U+0130"}

isdigit(c) == c \in {"1", "2"}

isupper(c) == c \in {"A", "E", "B", "S", "I", "C", "U+2102", "U+0130"}

lower_char(c) ==
    CASE c = "A" -> <<"a">>
      [] c = "E" -> <<"e">>
      [] c = "B" -> <<"b">>
      [] c = "S" -> <<"s">>
      [] c = "I" -> <<"i">>
      [] c = "C" -> <<"c">>
      [] c = "U+0130" -> <<"i", "U+0307">>
      [] OTHER -> <<c>>

upper_char(c) ==
    CASE c = "a" -> <<"A">>
      [] c = "e" -> <<"E">>
      [] c = "b" -> <<"B">>
      [] c = "s" -> <<"S">>
      [] c = "i" -> <<"I">>
      [] c = "c" -> <<"C">>
      [] c = "U+00DF" -> <<"S", "S">>
      [] OTHER -> <<c>>

RECURSIVE lower(_)
lower(s) == IF s = <<>> THEN <<>> ELSE lower_char(Head(s)) \o lower(Tail(s))

RECURSIVE upper(_)
upper(s) == IF s = <<>> THEN <<>> ELSE upper_char(Head(s)) \o upper(Tail(s))

\* unicodedata.normalize("NFKD", s)[0], for a non-empty str s
normalize_NFKD_0(s) ==
    CASE Head(s) = "U+2102" -> "C"
      [] Head(s) = "U+0130" -> "I"
      [] OTHER -> Head(s)

\* Scrambler._CONSONANTS and Scrambler._VOWELS, as the sets of their characters
CONSONANTS ==
    {"b", "c", "d", "f", "g", "h", "j", "k", "l", "m", "n", "p", "q", "r", "s",
     "t", "v", "w", "x", "z"}

VOWELS == {"a", "e", "i", "o", "u", "y"}

\* `s in letters` for a str s of one character (a longer s is never tested)
InLetters(s, letters) == Len(s) = 1 /\ s[1] \in letters

\* "".join(list)
RECURSIVE join(_)
join(list) == IF list = <<>> THEN <<>> ELSE Head(list) \o join(Tail(list))

-----------------------------------------------------------------------------
(* class Scrambler *)

Scrambler_init(preserve_letter_distribution) ==
    [buf |-> <<>>, alpha |-> <<>>, cons |-> <<>>, vowels |-> <<>>,
     digits |-> <<>>, preserve_letter_distribution |-> preserve_letter_distribution]

\* A clear() that empties the position buffer only.
clear_positions_only(s) == [s EXCEPT !.buf = <<>>]

clear(s) ==
    [s EXCEPT !.buf = <<>>, !.alpha = <<>>, !.cons = <<>>, !.vowels = <<>>,
              !.digits = <<>>]

\* One turn of feed()'s loop.
feed_char(s, c) ==
    LET s1 == [s EXCEPT !.buf = Append(@, c)]
        lc == lower(<<c>>)
    IN  IF isalpha(c)
        THEN IF s.preserve_letter_distribution
             THEN LET n == normalize_NFKD_0(lc)
                  IN  IF n \in CONSONANTS
                      THEN [s1 EXCEPT !.cons = Append(@, lc)]
                      ELSE IF n \in VOWELS
                           THEN [s1 EXCEPT !.vowels = Append(@, lc)]
                           ELSE [s1 EXCEPT !.alpha = Append(@, lc)]
             ELSE [s1 EXCEPT !.alpha = Append(@, lc)]
        ELSE IF isdigit(c)
             THEN [s1 EXCEPT !.digits = Append(@, <<c>>)]
             ELSE s1

RECURSIVE feed(_, _)
feed(s, text) ==
    IF text = <<>> THEN s ELSE feed(feed_char(s, Head(text)), Tail(text))

\* list.pop(0) inside _pop_letter's try: the IndexError of an empty list is
\* caught and "" is returned.
PopOrEmpty(s, field) ==
    IF s[field] = <<>>
    THEN [val |-> <<>>, s |-> s]
    ELSE [val |-> Head(s[field]), s |-> [s EXCEPT ![field] = Tail(@)]]

\* _pop_letter(c), c a str of one character: the popped str and the Scrambler after it
pop_letter(s, c) ==
    IF c /= <<>> /\ s.preserve_letter_distribution
    THEN LET n == normalize_NFKD_0(c)
         IN  IF InLetters(lower(<<n>>), CONSONANTS)
             THEN PopOrEmpty(s, "cons")
             ELSE IF InLetters(lower(<<n>>), VOWELS)
                  THEN PopOrEmpty(s, "vowels")
                  ELSE PopOrEmpty(s, "alpha")
    ELSE PopOrEmpty(s, "alpha")

\* flush()'s loop from position i on.  acc holds the list `text`, the strs
\* taken out of the class buffers, and whether _digits.pop(0) raised.
RECURSIVE flush_loop(_, _, _)
flush_loop(s, i, acc) ==
    IF i > Len(s.buf) \/ acc.raised
    THEN acc
    ELSE LET c == s.buf[i]
         IN  IF isalpha(c)
             THEN LET p == pop_letter(s, <<c>>)
                      t == IF isupper(c) THEN upper(p.val) ELSE p.val
                  IN  flush_loop(p.s, i + 1,
                                 [acc EXCEPT !.text = Append(@, t),
                                             !.drawn = Append(@, p.val)])
             ELSE IF isdigit(c)
                  THEN IF s.digits = <<>>
                       THEN [acc EXCEPT !.raised = TRUE]
                       ELSE flush_loop([s EXCEPT !.digits = Tail(@)], i + 1,
                                       [acc EXCEPT !.text = Append(@, Head(s.digits)),
                                                   !.drawn = Append(@, Head(s.digits))])
                  ELSE flush_loop(s, i + 1,
                                  [acc EXCEPT !.text = Append(@, <<c>>),
                                              !.drawn = Append(@, <<>>)])

flush(s) == flush_loop(s, 1, [text |-> <<>>, drawn |-> <<>>, raised |-> FALSE])

\* A shuffle that draws each place anew from the list (a resample).
shuffle_resample(list) ==
    { t \in [1..Len(list) -> { list[i] : i \in 1..Len(list) }] : TRUE }

\* random.shuffle(list): every order of the list
shuffle(list) ==
    { [i \in 1..Len(list) |-> list[p[i]]] : p \in Permutations(1..Len(list)) }

\* The Scrambler after the shuffles of scramble(), before flush().
shuffled(s) ==
    { [s EXCEPT !.alpha = a, !.cons = c, !.vowels = v, !.digits = d] :
        a \in shuffle(s.alpha),
        c \in IF s.preserve_letter_distribution THEN shuffle(s.cons) ELSE {s.cons},
        v \in IF s.preserve_letter_distribution THEN shuffle(s.vowels) ELSE {s.vowels},
        d \in shuffle(s.digits) }

\* What scramble() can return for the Scrambler s: flush() after each shuffle.
scramble_results(s) == { flush(x) : x \in shuffled(s) }

\* No request is being served: the classes are used as a library.
NoRequest ==
    /\ environ = [SERVER_SOFTWARE |-> "", SERVER_PORT |-> "80", SCRAMBLER_ALLOWLIST |-> <<"">>]
    /\ form = [url |-> [kind |-> "none"], honeypot |-> ""]
    /\ pc = "done"
    /\ responses = <<>>
    /\ fetches = <<>>
    /\ src = [kind |-> "none", code |-> "", content_type |-> <<>>]

\* A constructor that takes suppress_scripts as it is passed.
HtmlFresh_as_passed(honeypot, suppress) ==
    /\ h_buf = <<>>
    /\ h_html = <<>>
    /\ is_scrambling = TRUE
    /\ is_script = FALSE
    /\ is_xhtml = FALSE
    /\ is_honeypot = honeypot
    /\ suppress_scripts = suppress
    /\ events = <<>>
    /\ doc = <<>>
    /\ done = FALSE

\* HTMLScrambler.__init__
HtmlFresh(honeypot, suppress) ==
    /\ h_buf = <<>>
    /\ h_html = <<>>
    /\ is_scrambling = TRUE
    /\ is_script = FALSE
    /\ is_xhtml = FALSE
    /\ is_honeypot = honeypot
    /\ suppress_scripts = (suppress \/ honeypot)
    /\ events = <<>>
    /\ doc = <<>>
    /\ done = FALSE

-----------------------------------------------------------------------------
(* The text Scrambler as a state machine *)

TextChars == {"a", "e", "A", "b", "1", "2", "-", "U+2102", "U+00DF", "U+0130"}

\* The texts a feed() call is given: longer texts are fed by further calls.
FeedTexts == { <<c>> : c \in TextChars }

TextInit ==
    /\ scr \in { Scrambler_init(p) : p \in BOOLEAN }
    /\ fed = <<>>
    /\ lastIn = <<>>
    /\ out = <<>>
    /\ drawn = <<>>
    /\ scrambled = FALSE
    /\ HtmlFresh(FALSE, TRUE)
    /\ NoRequest

Scrambler_feed(text) ==
    /\ Len(scr.buf) + Len(text) <= MaxTextLen
    /\ scr' = feed(scr, text)
    /\ fed' = fed \o text
    /\ lastIn' = <<>>
    /\ out' = <<>>
    /\ drawn' = <<>>
    /\ scrambled' = FALSE
    /\ UNCHANGED htmlVars

Scrambler_scramble ==
    /\ ~scrambled
    /\ \E r \in scramble_results(scr) :
          /\ ~r.raised
          /\ lastIn' = fed
          /\ out' = r.text
          /\ drawn' = r.drawn
    /\ scr' = clear(scr)
    /\ fed' = <<>>
    /\ scrambled' = TRUE
    /\ UNCHANGED htmlVars

Scrambler_clear ==
    /\ scr.buf /= <<>>
    /\ scr' = clear(scr)
    /\ fed' = <<>>
    /\ lastIn' = <<>>
    /\ out' = <<>>
    /\ drawn' = <<>>
    /\ scrambled' = FALSE
    /\ UNCHANGED htmlVars

TextNext ==
    \/ \E text \in FeedTexts : Scrambler_feed(text) /\ UNCHANGED mainVars
    \/ Scrambler_scramble /\ UNCHANGED mainVars
    \/ Scrambler_clear /\ UNCHANGED mainVars

SpecText == TextInit /\ [][TextNext]_vars

-----------------------------------------------------------------------------
(* Claims about the text Scrambler, on the last scramble(): lastIn is the   *)
(* text T that was fed, join(out) the string that scramble() returned.      *)

outText == join(out)

IsLiteral(c) == ~isalpha(c) /\ ~isdigit(c)

IsAsciiText(text) ==
    \A i \in 1..Len(text) : text[i] \notin {"U+2102", "U+00DF", "U+0130", "U+0307"}

Count(list, x) == Cardinality({ i \in 1..Len(list) : list[i] = x })

Elements(list) == { list[i] : i \in 1..Len(list) }

SameBag(l1, l2) ==
    \A x \in Elements(l1) \cup Elements(l2) : Count(l1, x) = Count(l2, x)

BagWithin(l1, l2) == \A x \in Elements(l1) : Count(l1, x) <= Count(l2, x)

\* The letters and digits of a text, as they stand (with their case).
Classified(text) == SelectSeq(text, LAMBDA c : isalpha(c) \/ isdigit(c))

Digits(text) == SelectSeq(text, isdigit)

\* The letters of a text, lower-cased, each as a str.
LowerLetters(text) ==
    LET letters == SelectSeq(text, isalpha)
    IN  [i \in 1..Len(letters) |-> lower(<<letters[i]>>)]

\* The strs flush() took out of the letter buffers, in the order of the positions.
DrawnLetters ==
    LET at == SelectSeq([i \in 1..Len(lastIn) |-> i],
                        LAMBDA i : isalpha(lastIn[i]) /\ drawn[i] /= <<>>)
    IN  [k \in 1..Len(at) |-> drawn[at[k]]]

\* C1: for every text T and either mode, a fresh Scrambler fed T returns from
\* scramble() a string of the length of T.
C1_LengthInvariance == scrambled => Len(outText) = Len(lastIn)

\* C2 (as claimed): the letters and digits of scramble(T), each with its case,
\* are the same multiset as those of T: an upper-case 'A' of T is an upper-case
\* 'A' of the output.  Stated for ASCII T only, where the length is kept, so
\* that what fails is the pairing of a character with its case.
C2_SameCharacterCaseMultiset ==
    scrambled /\ IsAsciiText(lastIn) =>
        SameBag(Classified(outText), Classified(lastIn))

\* C2 (amended): the digits of scramble(T) are the digits of T as a multiset;
\* the letters are drawn without replacement from the lower-cased letters of
\* T and the case is that of the position, not of the letter drawn (the str
\* drawn is upper-cased exactly where T is upper-case); for ASCII T every
\* lower-cased letter of T is emitted exactly once, the length is kept and the
\* output is upper-case exactly where T is.
C2_PermutesLowerCasedLetters ==
    scrambled =>
        /\ SameBag(Digits(outText), Digits(lastIn))
        /\ BagWithin(DrawnLetters, LowerLetters(lastIn))
        /\ Len(out) = Len(lastIn)
        /\ \A i \in 1..Len(lastIn) :
              isalpha(lastIn[i]) =>
                  out[i] = IF isupper(lastIn[i]) THEN upper(drawn[i]) ELSE drawn[i]
        /\ IsAsciiText(lastIn) =>
              /\ Len(outText) = Len(lastIn)
              /\ SameBag(LowerLetters(outText), LowerLetters(lastIn))
              /\ \A i \in 1..Len(lastIn) : isupper(outText[i]) <=> isupper(lastIn[i])

\* C2 witness: "Ae" came back as "Ea": the vowels changed places, the case did not.
C2_Witness == scrambled /\ lastIn = <<"A", "e">> /\ outText = <<"E", "a">>

\* C3: every character of T that is neither a letter nor a digit is at the
\* same index in scramble(T), for every shuffle outcome.
C3_LiteralFixedPoints ==
    scrambled =>
        \A i \in 1..Len(lastIn) :
            IsLiteral(lastIn[i]) => i <= Len(outText) /\ outText[i] = lastIn[i]

-----------------------------------------------------------------------------
(* class HTMLScrambler: constants and string conversions *)

\* The special value "<>" of _buf, as the two characters it is once joined
Marker == <<"<", ">">>

REMOVED == <<"<!-- script removed -->">>

\* Raw-data tags without style.
DONT_SCRAMBLE_script_only == {"script"}

DONT_SCRAMBLE == {"script", "style"}

VOID_ELEMENTS ==
    {"area", "base", "br", "col", "embed", "hr", "img", "input", "link",
     "meta", "param", "source", "track", "wbr", "command", "keygen", "menuitem"}

\* The marker handle_decl looks for in a declaration
XHTML_MARKER == "//DTD XHTML "

\* base_url, the URL of the page: https://example.com/
base_url == <<"https", ":", "/", "/", "example.com", "/">>

\* html.escape(value, True), character by character
escape_char(t) ==
    CASE t = "&" -> <<"&", "a", "m", "p", ";">>
      [] t = "<" -> <<"&", "l", "t", ";">>
      [] t = ">" -> <<"&", "g", "t", ";">>
      [] t = "\"" -> <<"&", "q", "u", "o", "t", ";">>
      [] t = "'" -> <<"&", "#", "x", "2", "7", ";">>
      [] OTHER -> <<t>>

\* No escaping at all.
escape_nothing(s) == s

RECURSIVE escape(_)
escape(s) == IF s = <<>> THEN <<>> ELSE escape_char(Head(s)) \o escape(Tail(s))

\* urllib.parse.quote(url) with its default safe="/": letters, digits,
\* "_.-~" and "/" stay, every other character becomes %XX
quote_char(t) ==
    CASE t = ":" -> <<"%3A">>
      [] t = " " -> <<"%20">>
      [] t = "?" -> <<"%3F">>
      [] t = "=" -> <<"%3D">>
      [] t = "&" -> <<"%26">>
      [] OTHER -> <<t>>

\* quote(url, safe=""): the slash is encoded too.
RECURSIVE quote_no_safe(_)
quote_no_safe(s) ==
    IF s = <<>> THEN <<>>
    ELSE (IF Head(s) = "/" THEN <<"%2F">> ELSE quote_char(Head(s))) \o quote_no_safe(Tail(s))

RECURSIVE quote(_)
quote(s) == IF s = <<>> THEN <<>> ELSE quote_char(Head(s)) \o quote(Tail(s))

\* The part of a path up to and including its last "/"
RECURSIVE UpToLastSlash(_)
UpToLastSlash(u) ==
    IF u = <<>> \/ u[Len(u)] = "/" THEN u ELSE UpToLastSlash(SubSeq(u, 1, Len(u) - 1))

\* urllib.parse.urljoin(base, url) for a base scheme://host/path and a url
\* that is empty, absolute, an absolute path or a relative path
urljoin(base, url) ==
    IF url = <<>> THEN base
    ELSE IF Len(url) >= 2 /\ url[2] = ":" THEN url
    ELSE IF Head(url) = "/" THEN SubSeq(base, 1, 5) \o url
    ELSE UpToLastSlash(base) \o url

\* str.split(sep), from index i on, cur being the piece under way
RECURSIVE split_from(_, _, _, _)
split_from(s, sep, i, cur) ==
    IF i > Len(s) THEN <<cur>>
    ELSE IF i + Len(sep) - 1 <= Len(s) /\ SubSeq(s, i, i + Len(sep) - 1) = sep
         THEN <<cur>> \o split_from(s, sep, i + Len(sep), <<>>)
         ELSE split_from(s, sep, i + 1, Append(cur, s[i]))

split(s, sep) == split_from(s, sep, 1, <<>>)

\* str.strip() of an item of a srcset: the blanks at both ends go
RECURSIVE strip(_)
strip(s) ==
    IF s /= <<>> /\ Head(s) = " " THEN strip(Tail(s))
    ELSE IF s /= <<>> /\ s[Len(s)] = " " THEN strip(SubSeq(s, 1, Len(s) - 1))
    ELSE s

\* separator.join(list)
RECURSIVE join_with(_, _)
join_with(sep, list) ==
    IF list = <<>> THEN <<>>
    ELSE IF Len(list) = 1 THEN Head(list)
    ELSE Head(list) \o sep \o join_with(sep, Tail(list))

\* One item of a srcset: "src size" or "src"
srcset_item(item) ==
    IF \E i \in 1..Len(item) : item[i] = " "
    THEN LET k == CHOOSE i \in 1..Len(item) :
                      item[i] = " " /\ \A j \in 1..(i - 1) : item[j] /= " "
         IN  urljoin(base_url, SubSeq(item, 1, k - 1)) \o <<" ">>
                 \o SubSeq(item, k + 1, Len(item))
    ELSE urljoin(base_url, item)

\* The srcset branch of _process_attr_value
srcset_value(value) ==
    LET items == split(value, <<",">>)
    IN  join_with(<<",", " ">>,
                  [i \in 1..Len(items) |-> srcset_item(strip(items[i]))])

UrlPrefix == <<"?url=">>

HoneypotPrefix == <<"?honeypot=1", "&", "url=">>

\* A prefix that forgets the honeypot.
link_prefix_plain == UrlPrefix

\* The prefix of a rewritten hyperlink or frame target
link_prefix == IF is_honeypot THEN HoneypotPrefix ELSE UrlPrefix

\* _process_attr_value(tag, attr, value): the strs it can return (one per
\* shuffle outcome for a scrambled attribute)
process_attr_value(tag, attr, value) ==
    LET values ==
            IF (tag = "a" /\ attr = "href") \/ (tag \in {"frame", "iframe"} /\ attr = "src")
            THEN LET target == quote(urljoin(base_url, value))
                 IN  {link_prefix \o target}
            ELSE IF attr \in {"action", "href", "src"}
            THEN {urljoin(base_url, value)}
            ELSE IF attr = "srcset"
            THEN {srcset_value(value)}
            ELSE IF attr \in {"alt", "placeholder", "title", "value"}
            THEN { join(r.text) : r \in scramble_results(feed(Scrambler_init(TRUE), value)) }
            ELSE {value}
    IN  { escape(v) : v \in values }

\* The pieces _build_starttag appends to tag_data for one attribute
attr_data(tag, at) ==
    IF at.has_value
    THEN { << <<" ">>, <<at.name>>, <<"=\"">>, v, <<"\"">> >> :
             v \in process_attr_value(tag, at.name, at.value) }
    ELSE IF is_xhtml
         THEN { << <<" ">>, <<at.name>>, <<"=\"">>, <<at.name>>, <<"\"">> >> }
         ELSE { << <<" ">>, <<at.name>> >> }

RECURSIVE attrs_data(_, _)
attrs_data(tag, attrs) ==
    IF attrs = <<>> THEN {<<>>}
    ELSE { one \o rest : one \in attr_data(tag, Head(attrs)),
                         rest \in attrs_data(tag, Tail(attrs)) }

\* A closing that forgets the void elements.
close_data_empty_only(tag, is_empty) ==
    IF is_xhtml /\ is_empty THEN << <<" />">> >> ELSE << <<">">> >>

\* The end of tag_data: " />" or ">"
close_data(tag, is_empty) ==
    IF is_xhtml /\ (is_empty \/ tag \in VOID_ELEMENTS) THEN << <<" />">> >> ELSE << <<">">> >>

\* Disabling that forgets the XHTML form of the attribute.
disabled_data_bare(tag) == IF tag = "input" THEN << <<" disabled">> >> ELSE <<>>

\* The pieces that disable an <input>
disabled_data(tag) ==
    IF tag = "input"
    THEN IF is_xhtml THEN << <<" disabled">>, <<"=\"disabled\"">> >>
                     ELSE << <<" disabled">> >>
    ELSE <<>>

\* _build_starttag(tag, attrs, is_empty): the strs it can return
build_starttag(tag, attrs, is_empty) ==
    { join(<< <<"<">>, <<tag>> >> \o a \o disabled_data(tag) \o close_data(tag, is_empty)) :
        a \in attrs_data(tag, attrs) }

-----------------------------------------------------------------------------
(* class HTMLScrambler: the handlers *)

Event(kind, tag, attrs, data) ==
    [kind |-> kind, tag |-> tag, attrs |-> attrs, data |-> data]

\* self._html.append(markup); self._buf.append("<>")
Emit(markup) ==
    /\ h_html' = Append(h_html, markup)
    /\ h_buf' = Append(h_buf, Marker)

\* handle_starttag with every raw-data tag turning scrambling off.
handle_starttag_raw_data_off(tag, attrs) ==
    /\ ~done
    /\ is_script' = IF tag = "script" THEN TRUE ELSE is_script
    /\ is_scrambling' =
           IF tag \in DONT_SCRAMBLE /\ ~(tag = "script" /\ suppress_scripts)
           THEN FALSE ELSE is_scrambling
    /\ IF tag = "script" /\ suppress_scripts
       THEN UNCHANGED <<h_html, h_buf>>
       ELSE \E t \in build_starttag(tag, attrs, FALSE) : Emit(t)
    /\ events' = Append(events, Event("starttag", tag, attrs, <<>>))
    /\ UNCHANGED <<is_xhtml, is_honeypot, suppress_scripts, doc, done, scrVars>>

handle_starttag(tag, attrs) ==
    /\ ~done
    /\ is_script' = IF tag = "script" THEN TRUE ELSE is_script
    /\ is_scrambling' =
           IF tag /= "script" /\ tag \in DONT_SCRAMBLE THEN FALSE ELSE is_scrambling
    /\ IF tag = "script" /\ suppress_scripts
       THEN UNCHANGED <<h_html, h_buf>>
       ELSE \E t \in build_starttag(tag, attrs, FALSE) : Emit(t)
    /\ events' = Append(events, Event("starttag", tag, attrs, <<>>))
    /\ UNCHANGED <<is_xhtml, is_honeypot, suppress_scripts, doc, done, scrVars>>

handle_startendtag(tag, attrs) ==
    /\ ~done
    /\ IF tag = "script" /\ suppress_scripts
       THEN UNCHANGED <<h_html, h_buf>>
       ELSE \E t \in build_starttag(tag, attrs, TRUE) : Emit(t)
    /\ events' = Append(events, Event("startendtag", tag, attrs, <<>>))
    /\ UNCHANGED <<is_script, is_scrambling, is_xhtml, is_honeypot,
                   suppress_scripts, doc, done, scrVars>>

handle_endtag(tag) ==
    /\ ~done
    /\ is_script' = IF tag = "script" THEN FALSE ELSE is_script
    /\ is_scrambling' =
           IF tag /= "script" /\ tag \in DONT_SCRAMBLE THEN TRUE ELSE is_scrambling
    /\ IF tag = "script" /\ suppress_scripts
       THEN UNCHANGED <<h_html, h_buf>>
       ELSE Emit(<<"</", tag, ">">>)
    /\ events' = Append(events, Event("endtag", tag, <<>>, <<>>))
    /\ UNCHANGED <<is_xhtml, is_honeypot, suppress_scripts, doc, done, scrVars>>

\* handle_data without the branch for a suppressed script.
handle_data_no_suppression(data) ==
    /\ ~done
    /\ IF is_scrambling
       THEN h_buf' = Append(h_buf, data) /\ UNCHANGED h_html
       ELSE Emit(data)
    /\ events' = Append(events, Event("data", "", <<>>, data))
    /\ UNCHANGED <<is_script, is_scrambling, is_xhtml, is_honeypot,
                   suppress_scripts, doc, done, scrVars>>

handle_data(data) ==
    /\ ~done
    /\ IF is_script /\ suppress_scripts
       THEN Emit(REMOVED)
       ELSE IF is_scrambling
            THEN h_buf' = Append(h_buf, data) /\ UNCHANGED h_html
            ELSE Emit(data)
    /\ events' = Append(events, Event("data", "", <<>>, data))
    /\ UNCHANGED <<is_script, is_scrambling, is_xhtml, is_honeypot,
                   suppress_scripts, doc, done, scrVars>>

handle_entityref(name) ==
    /\ ~done
    /\ Emit(<<"&", name, ";">>)
    /\ events' = Append(events, Event("entityref", "", <<>>, <<name>>))
    /\ UNCHANGED <<is_script, is_scrambling, is_xhtml, is_honeypot,
                   suppress_scripts, doc, done, scrVars>>

handle_charref(name) ==
    /\ ~done
    /\ Emit(<<"&#", name, ";">>)
    /\ events' = Append(events, Event("charref", "", <<>>, <<name>>))
    /\ UNCHANGED <<is_script, is_scrambling, is_xhtml, is_honeypot,
                   suppress_scripts, doc, done, scrVars>>

handle_comment(data) ==
    /\ ~done
    /\ Emit(<<"<!--">> \o data \o <<"-->">>)
    /\ events' = Append(events, Event("comment", "", <<>>, data))
    /\ UNCHANGED <<is_script, is_scrambling, is_xhtml, is_honeypot,
                   suppress_scripts, doc, done, scrVars>>

handle_decl(decl) ==
    /\ ~done
    /\ Emit(<<"<!">> \o decl \o <<">">>)
    /\ is_xhtml' = IF \E i \in 1..Len(decl) : decl[i] = XHTML_MARKER THEN TRUE ELSE is_xhtml
    /\ events' = Append(events, Event("decl", "", <<>>, decl))
    /\ UNCHANGED <<is_script, is_scrambling, is_honeypot, suppress_scripts,
                   doc, done, scrVars>>

Chunk(s) == [kind |-> "chunk", s |-> s]

Markup(s) == [kind |-> "markup", s |-> s]

\* The loop of HTMLScrambler.scramble() over the chunks: the list `text` and
\* what is left of _html.  No source or target encoding is set (the
\* constructor's default), so a chunk is appended as it is.
RECURSIVE reassemble(_, _, _)
reassemble(chunks, html, text) ==
    IF chunks = <<>> THEN [text |-> text, html |-> html]
    ELSE LET t1 == Append(text, Chunk(Head(chunks)))
         IN  IF html /= <<>>
             THEN reassemble(Tail(chunks), Tail(html), Append(t1, Markup(Head(html))))
             ELSE reassemble(Tail(chunks), html, t1)

HTMLScrambler_scramble ==
    /\ ~done
    /\ \E r \in scramble_results(feed(Scrambler_init(TRUE), join(h_buf))) :
          /\ ~r.raised
          /\ LET res == reassemble(split(join(r.text), Marker), h_html, <<>>)
             IN  /\ doc' = res.text
                 /\ h_html' = res.html
    /\ done' = TRUE
    /\ UNCHANGED <<h_buf, is_script, is_scrambling, is_xhtml, is_honeypot,
                   suppress_scripts, events, scrVars>>

ScramblerIdle ==
    /\ scr = Scrambler_init(TRUE)
    /\ fed = <<>>
    /\ lastIn = <<>>
    /\ out = <<>>
    /\ drawn = <<>>
    /\ scrambled = FALSE

HtmlInit ==
    /\ ScramblerIdle
    /\ NoRequest
    /\ \E honeypot, suppress \in BOOLEAN : HtmlFresh(honeypot, suppress)

-----------------------------------------------------------------------------
(* The events of a document: text runs, markup without attributes *)

Attr(name, value) == [name |-> name, has_value |-> TRUE, value |-> value]

Valueless(name) == [name |-> name, has_value |-> FALSE, value |-> <<>>]

DataRuns == { <<"A", "e">>, <<"<">>, <<">">>, <<"U+0130">> }

XhtmlDecl == <<"DOCTYPE html PUBLIC \"-//W3C", XHTML_MARKER, "1.0 Strict//EN\"">>

Html5Decl == <<"DOCTYPE html">>

MoreEvents == Len(events) < MaxEvents

HtmlNext ==
    \/ \E tag \in {"script", "style", "p"} : MoreEvents /\ handle_starttag(tag, <<>>) /\ UNCHANGED mainVars
    \/ \E tag \in {"script", "br"} : MoreEvents /\ handle_startendtag(tag, <<>>) /\ UNCHANGED mainVars
    \/ \E tag \in {"script", "style", "p"} : MoreEvents /\ handle_endtag(tag) /\ UNCHANGED mainVars
    \/ \E data \in DataRuns : MoreEvents /\ handle_data(data) /\ UNCHANGED mainVars
    \/ MoreEvents /\ handle_entityref("amp") /\ UNCHANGED mainVars
    \/ MoreEvents /\ handle_charref("38") /\ UNCHANGED mainVars
    \/ MoreEvents /\ handle_comment(<<" c ">>) /\ UNCHANGED mainVars
    \/ MoreEvents /\ handle_decl(XhtmlDecl) /\ UNCHANGED mainVars
    \/ HTMLScrambler_scramble /\ UNCHANGED mainVars

SpecHtml == HtmlInit /\ [][HtmlNext]_vars

\* The chunks and the markup entries of the finished document
DocItems(kind) == SelectSeq(doc, LAMBDA item : item.kind = kind)

\* C4: the number of markers found when scramble() splits the scrambled text
\* (one less than the number of chunks) is the length of the markup queue at
\* that moment (the entries popped and those left), and no entry is left.
C4_PlaceholderAlignment ==
    done =>
        /\ Len(DocItems("chunk")) - 1 = Len(DocItems("markup")) + Len(h_html)
        /\ h_html = <<>>

IsScriptTag(markup) ==
    Len(markup) >= 2 /\ markup[1] \in {"<", "</"} /\ markup[2] = "script"

NoScriptTags ==
    /\ \A i \in 1..Len(h_html) : ~IsScriptTag(h_html[i])
    /\ \A i \in 1..Len(doc) : doc[i].kind = "markup" => ~IsScriptTag(doc[i].s)

\* A script start tag was seen and no script end tag after it.
InScript(evs) ==
    \E i \in 1..Len(evs) :
        /\ evs[i].kind = "starttag" /\ evs[i].tag = "script"
        /\ \A j \in (i + 1)..Len(evs) : ~(evs[j].kind = "endtag" /\ evs[j].tag = "script")

\* C5: with suppression on, no script start, self-closing or end tag is in
\* the markup queue or the document, and a text run that arrives inside a
\* script adds the entry '<!-- script removed -->' and its marker and nothing
\* else: the run goes neither to the text buffer nor to the queue.
C5_ScriptSuppression ==
    [][suppress_scripts =>
          /\ NoScriptTags'
          /\ (/\ Len(events') = Len(events) + 1
              /\ events'[Len(events')].kind = "data"
              /\ InScript(events))
                 => /\ h_html' = Append(h_html, REMOVED)
                    /\ h_buf' = Append(h_buf, Marker)]_vars

\* C5 witness: a script start tag, then a text run, and the finished document
\* holds the removal comment.
C5_Witness ==
    /\ suppress_scripts /\ done
    /\ \E i \in 1..(Len(events) - 1) :
          /\ events[i].kind = "starttag" /\ events[i].tag = "script"
          /\ events[i + 1].kind = "data"
    /\ \E k \in 1..Len(doc) : doc[k] = Markup(REMOVED)

-----------------------------------------------------------------------------
(* The tags of a document: start tags with their attributes, declarations *)

path_page == <<"/", "page">>

TagInputs ==
    { [tag |-> "a", attrs |-> <<Attr("href", path_page)>>],
      [tag |-> "a", attrs |-> <<Valueless("href")>>],
      [tag |-> "a", attrs |-> <<Attr("href", <<"http", ":", "/", "/", "o.org", "/", "q",
                                               "?", "u", "=", "1", "&", "v">>)>>],
      [tag |-> "iframe", attrs |-> <<Attr("src", <<"x", " ", "y">>)>>],
      [tag |-> "link", attrs |-> <<Attr("href", path_page)>>],
      [tag |-> "img", attrs |-> <<Attr("src", path_page), Attr("alt", <<"A", "e">>)>>],
      [tag |-> "img", attrs |-> <<Attr("srcset", <<"/", "a", " ", "2x", ",", " ", "/", "b">>)>>],
      [tag |-> "p", attrs |-> <<Attr("title", <<"a", "&", "E", "\"">>)>>],
      [tag |-> "p", attrs |-> <<Attr("title", <<"U+2102", "a">>)>>],
      [tag |-> "p", attrs |-> <<Attr("class", <<"a", "<", "b">>)>>],
      [tag |-> "input", attrs |-> <<Attr("value", <<"a", "1", "e">>)>>],
      [tag |-> "input", attrs |-> <<Valueless("disabled")>>],
      [tag |-> "br", attrs |-> <<>>] }

MoreTagEvents == Len(events) < MaxTagEvents

TagNext ==
    \/ \E in \in TagInputs : MoreTagEvents /\ handle_starttag(in.tag, in.attrs) /\ UNCHANGED mainVars
    \/ \E in \in TagInputs : MoreTagEvents /\ handle_startendtag(in.tag, in.attrs) /\ UNCHANGED mainVars
    \/ \E decl \in {XhtmlDecl, Html5Decl} : MoreTagEvents /\ handle_decl(decl) /\ UNCHANGED mainVars

SpecTag == HtmlInit /\ [][TagNext]_vars

\* The markup queue as it was when scramble() was called: the entries popped
\* into the document and the entries left.
QueueBefore ==
    [i \in 1..Len(DocItems("markup")) |-> DocItems("markup")[i].s] \o h_html

\* The documents a fresh HTMLScrambler given the same events can return: the
\* handlers of tags without attributes draw nothing at random, so its _buf
\* and _html are the same and only the shuffles differ.
OtherOutcomes ==
    { reassemble(split(join(r.text), Marker), QueueBefore, <<>>).text :
        r \in scramble_results(feed(Scrambler_init(TRUE), join(h_buf))) }

\* A document with each text chunk replaced by its length
Skeleton(d) ==
    [i \in 1..Len(d) |-> IF d[i].kind = "markup" THEN d[i]
                         ELSE [kind |-> "chunk", s |-> Len(d[i].s)]]

\* C11: the document a second fresh instance returns for the same events and
\* flags, whatever its shuffles, has the markup entries of this document in
\* the same places and text chunks of the same lengths.
C11_IdempotentStructure ==
    done => \A d \in OtherOutcomes : Skeleton(d) = Skeleton(doc)

\* A str with every letter replaced by "L" and every digit by "D"
Abstracted(str) ==
    [i \in 1..Len(str) |-> IF isalpha(str[i]) THEN "L"
                           ELSE IF isdigit(str[i]) THEN "D" ELSE str[i]]

\* The renderings of the events in their order: the text runs as they were
\* received and, for each marker a handler appended, the next entry of the
\* markup queue.
RECURSIVE InOrder(_, _)
InOrder(buf, queue) ==
    IF buf = <<>> THEN <<>>
    ELSE IF Head(buf) = Marker /\ queue /= <<>>
         THEN Abstracted(Head(queue)) \o InOrder(Tail(buf), Tail(queue))
         ELSE Abstracted(Head(buf)) \o InOrder(Tail(buf), queue)

AsciiEvents ==
    \A i \in 1..Len(events) : events[i].kind = "data" => IsAsciiText(events[i].data)

\* C14: letters and digits abstracted, the finished document is the in-order
\* concatenation of the renderings of the events: each markup entry stands
\* right after the text runs that came before its event, in FIFO order.
\* Stated for ASCII text runs.
C14_OriginalInterleave ==
    done /\ AsciiEvents =>
        /\ h_html = <<>>
        /\ Abstracted(join([i \in 1..Len(doc) |-> doc[i].s])) = InOrder(h_buf, QueueBefore)

-----------------------------------------------------------------------------
(* Claims about the tag builder.  Every event is the last event of some    *)
(* state: the claims are stated of the last event, a start or self-closing *)
(* tag that was emitted, and of the markup entry it appended.              *)

LastEvent == events[Len(events)]

LastEntry == h_html[Len(h_html)]

Earlier == SubSeq(events, 1, Len(events) - 1)

TagEmitted ==
    /\ ~done
    /\ events /= <<>>
    /\ LastEvent.kind \in {"starttag", "startendtag"}
    /\ ~(LastEvent.tag = "script" /\ suppress_scripts)
    /\ h_html /= <<>>

\* A declaration holding the XHTML DTD marker is among the events evs.
XhtmlSeen(evs) ==
    \E i \in 1..Len(evs) :
        evs[i].kind = "decl" /\ \E k \in 1..Len(evs[i].data) : evs[i].data[k] = XHTML_MARKER

\* The attribute values written in a tag, in order: what stands between
\* =" and the next "
RECURSIVE QuotedValues(_)
QuotedValues(markup) ==
    IF markup = <<>> THEN <<>>
    ELSE IF Head(markup) = "=\""
         THEN LET rest == Tail(markup)
                  k == CHOOSE i \in 1..Len(rest) :
                           rest[i] = "\"" /\ \A j \in 1..(i - 1) : rest[j] /= "\""
              IN  <<SubSeq(rest, 1, k - 1)>> \o QuotedValues(SubSeq(rest, k + 1, Len(rest)))
         ELSE QuotedValues(Tail(markup))

\* The attributes of the last event that are written with a value: those
\* that have one and, once the document is XHTML, the valueless ones too.
WrittenAttrs ==
    SelectSeq(LastEvent.attrs, LAMBDA at : at.has_value \/ XhtmlSeen(Earlier))

Rewritable(tag, name) ==
    (tag = "a" /\ name = "href") \/ (tag \in {"frame", "iframe"} /\ name = "src")

StartsWith(s, prefix) == Len(s) >= Len(prefix) /\ SubSeq(s, 1, Len(prefix)) = prefix

\* C6: an emitted start or self-closing tag ends in " />" exactly when an
\* XHTML declaration was seen before it and the tag is a void element or was
\* reported self-closing; otherwise it ends in ">".
C6_VoidXhtmlClosing ==
    TagEmitted =>
        LET closing == LastEntry[Len(LastEntry)]
        IN  IF XhtmlSeen(Earlier)
               /\ (LastEvent.kind = "startendtag" \/ LastEvent.tag \in VOID_ELEMENTS)
            THEN closing = " />"
            ELSE closing = ">"

\* C6 witness: <br> as a start tag after an XHTML declaration comes out as <br />.
C6_Witness ==
    /\ TagEmitted /\ XhtmlSeen(Earlier)
    /\ LastEvent.kind = "starttag" /\ LastEvent.tag = "br"
    /\ LastEntry = <<"<", "br", " />">>

IsPageLink == LastEvent.tag = "a" /\ LastEvent.attrs = <<Attr("href", path_page)>>

\* C7 (as claimed): with honeypot off, <a href="/page"> on the page
\* https://example.com/ is written with
\* href="?url=https%3A%2F%2Fexample.com%2Fpage", the slashes encoded.
C7_LinkFullyEncoded ==
    TagEmitted /\ ~is_honeypot /\ IsPageLink =>
        QuotedValues(LastEntry) =
            << <<"?url=", "https", "%3A", "%2F", "%2F", "example.com", "%2F", "page">> >>

\* C7 (amended): with honeypot off, the href of an <a> tag is "?url=" and
\* then the absolute URL percent-encoded with the slashes kept: no ":", "?",
\* "=", "&" or blank is left in it, no "%2F" is in it and it has the slashes
\* of the absolute URL; <a href="/page"> on https://example.com/ is written
\* with href="?url=https%3A//example.com/page".
C7_LinkEncodedButSlashes ==
    TagEmitted /\ ~is_honeypot /\ LastEvent.tag = "a"
        /\ Len(LastEvent.attrs) = 1 /\ LastEvent.attrs[1].name = "href"
        /\ LastEvent.attrs[1].has_value =>
        /\ Len(QuotedValues(LastEntry)) = 1
        /\ LET w == QuotedValues(LastEntry)[1]
               rest == SubSeq(w, 2, Len(w))
           IN  /\ w /= <<>> /\ w[1] = "?url="
               /\ \A i \in 1..Len(rest) : rest[i] \notin {":", "?", "=", "&", " ", "%2F"}
               /\ Count(rest, "/") = Count(urljoin(base_url, LastEvent.attrs[1].value), "/")
               /\ Count(rest, "/") >= 2
        /\ IsPageLink =>
              QuotedValues(LastEntry) =
                  << <<"?url=", "https", "%3A", "/", "/", "example.com", "/", "page">> >>

\* C7 witness: <a href="/page"> was emitted with honeypot off.
C7_Witness ==
    /\ TagEmitted /\ ~is_honeypot /\ IsPageLink
    /\ LastEntry = <<"<", "a", " ", "href", "=\"", "?url=", "https", "%3A", "/", "/",
                     "example.com", "/", "page", "\"", ">">>

\* C8 (as claimed): the value written for a rewritable URL attribute that
\* has a value is exactly "?honeypot=1&url=" and the encoded absolute URL in
\* honeypot mode and exactly "?url=" and the encoded absolute URL otherwise,
\* and no other attribute starts with either prefix.
C8_PrefixExactly ==
    TagEmitted /\ Len(QuotedValues(LastEntry)) = Len(WrittenAttrs) =>
        \A k \in 1..Len(WrittenAttrs) :
            LET at == WrittenAttrs[k]
                w == QuotedValues(LastEntry)[k]
            IN  IF Rewritable(LastEvent.tag, at.name)
                THEN at.has_value =>
                        w = (IF is_honeypot THEN <<"?honeypot=1", "&", "url=">>
                                            ELSE <<"?url=">>)
                            \o quote(urljoin(base_url, at.value))
                ELSE ~StartsWith(w, <<"?url=">>) /\ ~StartsWith(w, <<"?honeypot=1">>)

\* C8 (amended): the value written for a rewritable URL attribute that has a
\* value is the encoded absolute URL after "?url=" with honeypot off and
\* after "?honeypot=1&amp;url=" (the "&" escaped for the attribute) in
\* honeypot mode; a rewritable attribute without a value is written without
\* one, or with its own name once the document is XHTML; no other attribute
\* starts with either prefix.
C8_PrefixEscaped ==
    TagEmitted =>
        /\ Len(QuotedValues(LastEntry)) = Len(WrittenAttrs)
        /\ \A k \in 1..Len(WrittenAttrs) :
              LET at == WrittenAttrs[k]
                  w == QuotedValues(LastEntry)[k]
              IN  IF Rewritable(LastEvent.tag, at.name)
                  THEN IF at.has_value
                       THEN w = (IF is_honeypot
                                 THEN <<"?honeypot=1", "&", "a", "m", "p", ";", "url=">>
                                 ELSE <<"?url=">>)
                                \o quote(urljoin(base_url, at.value))
                       ELSE w = <<at.name>>
                  ELSE ~StartsWith(w, <<"?url=">>) /\ ~StartsWith(w, <<"?honeypot=1">>)

\* C8 witness: in honeypot mode an <iframe src> was emitted, rewritten.
C8_Witness ==
    /\ TagEmitted /\ is_honeypot /\ LastEvent.tag = "iframe"
    /\ QuotedValues(LastEntry) =
           << <<"?honeypot=1", "&", "a", "m", "p", ";", "url=", "https", "%3A", "/", "/",
                "example.com", "/", "x", "%20", "y">> >>

\* C9: every emitted <input> start or self-closing tag carries "disabled"
\* as its last attribute: disabled="disabled" once an XHTML declaration was
\* seen, bare otherwise, whatever attributes the tag had.
C9_InputDisabled ==
    TagEmitted /\ LastEvent.tag = "input" =>
        LET n == Len(LastEntry)
        IN  IF XhtmlSeen(Earlier)
            THEN n >= 5 /\ LastEntry[n - 2] = " disabled" /\ LastEntry[n - 1] = "=\"disabled\""
            ELSE n >= 4 /\ LastEntry[n - 1] = " disabled"

\* C9 witness: an <input> that already had a disabled attribute, in XHTML.
C9_Witness ==
    /\ TagEmitted /\ XhtmlSeen(Earlier) /\ LastEvent.kind = "starttag"
    /\ LastEntry = <<"<", "input", " ", "disabled", "=\"", "disabled", "\"",
                     " disabled", "=\"disabled\"", " />">>

SCRAMBLED_ATTRS == {"alt", "placeholder", "title", "value"}

ESCAPED == {"&", "<", ">", "\"", "'"}

\* html.unescape of an escaped value: each entity back to its character
RECURSIVE Unescaped(_)
Unescaped(w) ==
    IF w = <<>> THEN <<>>
    ELSE IF Head(w) = "&"
         THEN LET k == CHOOSE i \in 1..Len(w) :
                           w[i] = ";" /\ \A j \in 1..(i - 1) : w[j] /= ";"
                  name == SubSeq(w, 2, k - 1)
                  c == CASE name = <<"a", "m", "p">> -> "&"
                         [] name = <<"l", "t">> -> "<"
                         [] name = <<"g", "t">> -> ">"
                         [] name = <<"q", "u", "o", "t">> -> "\""
                         [] name = <<"#", "x", "2", "7">> -> "'"
              IN  <<c>> \o Unescaped(SubSeq(w, k + 1, Len(w)))
         ELSE <<Head(w)>> \o Unescaped(Tail(w))

\* By how much html.escape lengthens a value
ExtraLength(v) ==
    4 * Count(v, "&") + 3 * Count(v, "<") + 3 * Count(v, ">")
        + 5 * Count(v, "\"") + 5 * Count(v, "'")

\* C10 (as claimed): the value written for an alt, placeholder, title or
\* value attribute has the length and the case pattern of the original,
\* whatever characters it holds.  Stated for ASCII values only.
C10_WrittenLengthKept ==
    TagEmitted /\ Len(QuotedValues(LastEntry)) = Len(WrittenAttrs) =>
        \A k \in 1..Len(WrittenAttrs) :
            LET at == WrittenAttrs[k]
                w == QuotedValues(LastEntry)[k]
            IN  at.name \in SCRAMBLED_ATTRS /\ at.has_value /\ IsAsciiText(at.value) =>
                    /\ Len(w) = Len(at.value)
                    /\ \A i \in 1..Len(w) : isupper(w[i]) <=> isupper(at.value[i])

\* C10 (amended): the value written for an alt, placeholder, title or value
\* attribute is the scrambled value escaped for the attribute: it holds no
\* raw < > " ' and one entity for each & < > " ' of the original; for an
\* ASCII value it is longer than the original by 4 for each &, 3 for each
\* < or > and 5 for each quote, and un-escaped it has the length of the
\* original, its case pattern, and its other characters where they were.
C10_ScrambledThenEscaped ==
    TagEmitted =>
        /\ Len(QuotedValues(LastEntry)) = Len(WrittenAttrs)
        /\ \A k \in 1..Len(WrittenAttrs) :
              LET at == WrittenAttrs[k]
                  w == QuotedValues(LastEntry)[k]
                  u == Unescaped(w)
              IN  at.name \in SCRAMBLED_ATTRS /\ at.has_value =>
                      /\ \A i \in 1..Len(w) : w[i] \notin {"<", ">", "\"", "'"}
                      /\ Count(w, "&") = Cardinality({ i \in 1..Len(at.value) : at.value[i] \in ESCAPED })
                      /\ IsAsciiText(at.value) =>
                            /\ Len(w) = Len(at.value) + ExtraLength(at.value)
                            /\ Len(u) = Len(at.value)
                            /\ \A i \in 1..Len(u) :
                                  /\ isupper(u[i]) <=> isupper(at.value[i])
                                  /\ IsLiteral(at.value[i]) => u[i] = at.value[i]
                                  /\ isalpha(u[i]) <=> isalpha(at.value[i])
                                  /\ isdigit(u[i]) <=> isdigit(at.value[i])

\* C10 witness: title="a&E&quot;" was written as title="e&amp;A&quot;".
C10_Witness ==
    /\ TagEmitted /\ LastEvent.tag = "p"
    /\ LastEvent.attrs = <<Attr("title", <<"a", "&", "E", "\"">>)>>
    /\ QuotedValues(LastEntry) =
           << <<"e", "&", "a", "m", "p", ";", "A", "&", "q", "u", "o", "t", ";">> >>

-----------------------------------------------------------------------------
(* Further claims about the text Scrambler *)

\* The class of a character: consonant, vowel or other letter when the
\* letter distribution is preserved, one class of letters when it is not
ClassOf(c, preserve) ==
    IF isdigit(c) THEN "digit"
    ELSE IF ~isalpha(c) THEN "other"
    ELSE IF ~preserve THEN "letter"
    ELSE IF InLetters(lower_char(c), CONSONANTS) THEN "consonant"
    ELSE IF InLetters(lower_char(c), VOWELS) THEN "vowel"
    ELSE "other letter"

\* C17: at every index of the input the output has a character of the same
\* class (consonant, vowel, other letter, digit; one class of letters in
\* mix-freely mode), upper-case exactly where the input is upper-case.
C17_PerPositionClassAndCase ==
    scrambled =>
        \A i \in 1..Len(lastIn) :
            /\ i <= Len(outText)
            /\ ClassOf(outText[i], scr.preserve_letter_distribution)
                   = ClassOf(lastIn[i], scr.preserve_letter_distribution)
            /\ isupper(outText[i]) <=> isupper(lastIn[i])

\* C18: a scramble() that returned met no empty class buffer: at every
\* letter or digit position it took a value out of a buffer, and never put
\* an empty string in its place.
C18_UnderflowIsFatal ==
    scrambled =>
        \A i \in 1..Len(lastIn) :
            isalpha(lastIn[i]) \/ isdigit(lastIn[i]) => drawn[i] /= <<>> /\ out[i] /= <<>>

ClassBuffers(s) == Len(s.alpha) + Len(s.cons) + Len(s.vowels) + Len(s.digits)

Literals(text) == Cardinality({ i \in 1..Len(text) : IsLiteral(text[i]) })

\* C19: after any sequence of feed() calls the buffers are those of one
\* feed() of the concatenated text on a fresh Scrambler, and the lengths of
\* the class buffers plus the number of literal positions make the length of
\* the fed text; when scramble() has returned, the position buffer and the
\* class buffers are empty, as in a fresh Scrambler.
C19_FeedAccumulatesScrambleClears ==
    LET fresh == Scrambler_init(scr.preserve_letter_distribution)
    IN  /\ scr = feed(fresh, fed)
        /\ scr.buf = fed
        /\ ClassBuffers(scr) + Literals(fed) = Len(fed)
        /\ scrambled =>
              /\ scr = fresh
              /\ scr.buf = <<>> /\ scr.alpha = <<>> /\ scr.cons = <<>>
              /\ scr.vowels = <<>> /\ scr.digits = <<>>

\* C19 witness: three feed() calls, a letter, a digit and a literal, then
\* scramble() returned.
C19_Witness ==
    /\ scrambled
    /\ lastIn = <<"A", "1", "-">>
    /\ scr.buf = <<>> /\ ClassBuffers(scr) = 0

-----------------------------------------------------------------------------
(* Claims about raw-data elements.  The tokenizer reports the content of a *)
(* script or style element as text runs and reports no tag inside it.      *)

IsTag(e, kind, tag) == e.kind = kind /\ e.tag = tag

\* The step handles a text run.
DataStep ==
    /\ Len(events') = Len(events) + 1
    /\ events'[Len(events')].kind = "data"

NewData == events'[Len(events')].data

\* C15: with suppression off, the script start tag turns scrambling off, and
\* a text run handled right after the script start tag is appended to the
\* markup queue as it is, with its marker, and not to the text buffer.
C15_UnsuppressedScriptOpaque ==
    [][~suppress_scripts /\ events /= <<>> /\ IsTag(LastEvent, "starttag", "script") =>
          /\ ~is_scrambling
          /\ DataStep => /\ h_html' = Append(h_html, NewData)
                         /\ h_buf' = Append(h_buf, Marker)]_vars

\* A style start tag was seen and no style end tag after it.
InStyle(evs) ==
    \E i \in 1..Len(evs) :
        /\ IsTag(evs[i], "starttag", "style")
        /\ \A j \in (i + 1)..Len(evs) : ~IsTag(evs[j], "endtag", "style")

\* C16: a text run between a style start tag and the next style end tag is
\* appended to the markup queue as it is, one entry and one marker, and not
\* to the text buffer; after a style end tag is_scrambling is true, and a
\* text run handled right after it is appended to the text buffer and to
\* nothing else.  (Outside a script whose content is being removed.)
C16_StyleOpaqueThenRestored ==
    [][/\ (DataStep /\ InStyle(events) /\ ~(suppress_scripts /\ InScript(events))) =>
             /\ h_html' = Append(h_html, NewData)
             /\ h_buf' = Append(h_buf, Marker)
       /\ (events' /= <<>> /\ IsTag(events'[Len(events')], "endtag", "style")) => is_scrambling'
       /\ (DataStep /\ events /= <<>> /\ IsTag(LastEvent, "endtag", "style")
              /\ ~(suppress_scripts /\ InScript(events))) =>
             /\ h_buf' = Append(h_buf, NewData)
             /\ h_html' = h_html]_vars

\* C16 witness: a style element with a text run in it was handled; the run
\* is in the markup queue and scrambling is on again.
C16_Witness ==
    /\ ~done /\ is_scrambling
    /\ Len(events) = 3
    /\ IsTag(events[1], "starttag", "style")
    /\ events[2].kind = "data" /\ events[2].data = <<"A", "e">>
    /\ IsTag(events[3], "endtag", "style")
    /\ h_html = << <<"<", "style", ">">>, <<"A", "e">>, <<"</", "style", ">">> >>
    /\ h_buf = <<Marker, Marker, Marker>>

C22_HoneypotSuppressesScripts ==
    [][is_honeypot =>
          /\ suppress_scripts /\ suppress_scripts'
          /\ NoScriptTags /\ NoScriptTags'
          /\ (DataStep /\ InScript(events)) =>
                /\ h_html' = Append(h_html, REMOVED)
                /\ h_buf' = Append(h_buf, Marker)]_vars

\* C22 witness: the honeypot output for a script element with a body is the
\* removal comment alone.
C22_Witness ==
    /\ is_honeypot /\ done
    /\ Len(events) = 3
    /\ IsTag(events[1], "starttag", "script")
    /\ events[2].kind = "data" /\ events[2].data = <<"A", "e">>
    /\ IsTag(events[3], "endtag", "script")
    /\ doc = <<Chunk(<<>>), Markup(REMOVED), Chunk(<<>>)>>
    /\ h_html = <<>>

-----------------------------------------------------------------------------
(* The CGI entry point: the module's globals, main() and scramble(url).    *)
(* A URL is the record of its parts as written; a request is served from   *)
(* "start" to urlopen() by main(), and from the answer of urlopen() to the *)
(* end by scramble(url).                                                   *)

HTTP_HOST == "localhost"

SCRIPT_NAME == "/cgi-bin/scrambler.py"

\* SERVER_SOFTWARE.startswith("SimpleHTTP/")
IsSimpleHTTP(software) == software \in {"SimpleHTTP/0.6 Python/3.11"}

\* The environments the module is loaded in.  SCRAMBLER_ALLOWLIST is held
\* as split(",") and strip leave it: [""] when the variable is not set.
Environs ==
    [SERVER_SOFTWARE : {"Apache/2.4", "SimpleHTTP/0.6 Python/3.11"},
     SERVER_PORT : {"80", "443", "8000"},
     SCRAMBLER_ALLOWLIST : { <<"">>, <<"allowed.example">> }]

ALLOWED_DOMAINS == <<HTTP_HOST>> \o environ.SCRAMBLER_ALLOWLIST

URL(scheme, host, port, path) ==
    [kind |-> "absolute", scheme |-> scheme, host |-> host, port |-> port, path |-> path]

DEFAULT_URL ==
    IF IsSimpleHTTP(environ.SERVER_SOFTWARE)
    THEN URL("https", "en.wikipedia.org", "", "/wiki/Main_Page")
    ELSE URL(IF environ.SERVER_PORT = "443" THEN "https" ELSE "http",
             HTTP_HOST,
             IF environ.SERVER_PORT \in {"80", "443"} THEN "" ELSE environ.SERVER_PORT,
             "/")

\* urlparse(url).hostname: the host in lower case
hostname(url) ==
    CASE url.host = "LOCALHOST" -> "localhost"
      [] OTHER -> url.host

\* urlparse(url).port raises ValueError for a port that is not a number
port_is_number(url) == url.port \in {"", "80", "443", "8080", "8000"}

well_known_port(url) ==
    \/ url.port = ""
    \/ url.scheme = "http" /\ url.port = "80"
    \/ url.scheme = "https" /\ url.port = "443"

\* _scrambler_error(code, message)
scrambler_error(code, message) ==
    [status |-> code, kind |-> "error", message |-> message, location |-> [kind |-> "none"]]

\* The Content-Type header, a blank line and the scrambled page
scrambled_page(mime_type) ==
    [status |-> "200", kind |-> "scrambled", message |-> mime_type, location |-> [kind |-> "none"]]

\* Status: 303 and Location: url
redirect(url) ==
    [status |-> "303", kind |-> "redirect", message |-> <<>>, location |-> url]

\* form.getfirst("url", DEFAULT_URL), joined to DEFAULT_URL if it has no "://"
requested_url(f) ==
    CASE f.url.kind = "none" -> DEFAULT_URL
      [] f.url.kind = "relative" -> [DEFAULT_URL EXCEPT !.path = f.url.path]
      [] OTHER -> f.url

\* bool(form.getfirst("honeypot", False)): any value that is not blank
honeypot_flag(f) == f.honeypot /= ""

\* The sanity checks of main(): which branch is taken
sanity(url) ==
    IF hostname(url) = HTTP_HOST /\ url.path = SCRIPT_NAME THEN "itself"
    ELSE IF url.scheme \notin {"http", "https"} THEN "scheme"
    ELSE IF ~port_is_number(url) THEN "ValueError"
    ELSE IF ~well_known_port(url) THEN "port"
    ELSE "passed"

\* An access check that looks at the allowlist in honeypot mode too.
allowed_url_any_mode(url, honeypot) ==
    IF url = DEFAULT_URL THEN TRUE
    ELSE \E i \in 1..Len(ALLOWED_DOMAINS) : hostname(url) = ALLOWED_DOMAINS[i]

allowed_url(url, honeypot) ==
    IF url = DEFAULT_URL THEN TRUE
    ELSE IF honeypot THEN hostname(url) = HTTP_HOST
    ELSE \E i \in 1..Len(ALLOWED_DOMAINS) : hostname(url) = ALLOWED_DOMAINS[i]

\* main(), up to the call of urlopen() in scramble(url)
main(f) ==
    /\ pc = "start"
    /\ form' = f
    /\ LET url == requested_url(f)
       IN  IF url.kind = "invalid"
           THEN /\ responses' = Append(responses, scrambler_error("500", <<"ValueError">>))
                /\ pc' = "done"
                /\ UNCHANGED fetches
           ELSE LET branch == sanity(url)
                    checked == IF branch = "itself"
                               THEN Append(responses, scrambler_error("403", <<"cannot scramble itself">>))
                               ELSE responses
                IN  CASE branch = "scheme" ->
                           /\ responses' = Append(responses, scrambler_error("500", <<"Unsupported URL scheme">>))
                           /\ pc' = "done"
                           /\ UNCHANGED fetches
                      [] branch = "port" ->
                           /\ responses' = Append(responses, scrambler_error("500", <<"Invalid port">>))
                           /\ pc' = "done"
                           /\ UNCHANGED fetches
                      [] branch = "ValueError" ->
                           /\ pc' = "failed"
                           /\ UNCHANGED <<responses, fetches>>
                      [] OTHER ->
                           IF allowed_url(url, honeypot_flag(f))
                           THEN /\ responses' = checked
                                /\ fetches' = Append(fetches, url)
                                /\ pc' = "urlopen"
                           ELSE /\ responses' = Append(checked, scrambler_error("403", <<"not on the allowlist">>))
                                /\ pc' = "done"
                                /\ UNCHANGED fetches
    /\ UNCHANGED <<environ, src, scrVars, htmlVars>>

\* content_type.split(";")[0]
mime_type(content_type) == split(content_type, <<";">>)[1]

\* A type that cannot be scrambled, always answered by a redirect.
unsupported_type_redirect(url, honeypot) == redirect(url)

\* scramble(url, is_honeypot) for a type it cannot scramble
unsupported_type(url, honeypot) ==
    IF honeypot THEN scrambler_error("403", <<"Access to this file has been blocked.">>)
    ELSE redirect(url)

\* scramble(url, is_honeypot) from the answer of urlopen() on, with the
\* handler of HTTPError in main()
scramble(answer) ==
    /\ pc = "urlopen"
    /\ src' = answer
    /\ LET url == fetches[Len(fetches)]
           printed ==
               IF answer.kind = "HTTPError" THEN scrambler_error(answer.code, <<"HTTPError">>)
               ELSE IF mime_type(answer.content_type) \in { <<"text/", "html">>, <<"application/", "xhtml+xml">> }
                       \/ Head(answer.content_type) = "text/"
               THEN scrambled_page(mime_type(answer.content_type))
               ELSE unsupported_type(url, honeypot_flag(form))
       IN  responses' = Append(responses, printed)
    /\ pc' = "done"
    /\ UNCHANGED <<environ, form, fetches, scrVars, htmlVars>>

\* What urlopen() can answer
Sources ==
    { [kind |-> "HTTPError", code |-> "404", content_type |-> <<>>] }
    \cup { [kind |-> "response", code |-> "200", content_type |-> t] :
             t \in { <<"text/", "html", ";", " charset=utf-8">>,
                     <<"application/", "xhtml+xml">>,
                     <<"text/", "plain">>,
                     <<"image/", "png">>,
                     <<"application/", "pdf", ";", " q=1">> } }

\* The url field of the query string
FormUrls ==
    { [kind |-> "none"], [kind |-> "invalid"],
      [kind |-> "relative", path |-> "/page"],
      [kind |-> "relative", path |-> SCRIPT_NAME],
      URL("http", "localhost", "", SCRIPT_NAME),
      URL("https", "LOCALHOST", "", SCRIPT_NAME),
      URL("http", "localhost", "", "/"),
      URL("http", "LOCALHOST", "", "/page"),
      URL("http", "localhost", "8080", "/page"),
      URL("http", "localhost", "abc", "/page"),
      URL("ftp", "evil.example", "", "/"),
      URL("http", "evil.example", "", "/"),
      URL("http", "evil.example", "8080", "/"),
      URL("https", "allowed.example", "443", "/"),
      URL("https", "en.wikipedia.org", "", "/wiki/Main_Page") }

Forms == [url : FormUrls, honeypot : {"", "1", "0"}]

MainInit ==
    /\ ScramblerIdle
    /\ HtmlFresh(FALSE, TRUE)
    /\ environ \in Environs
    /\ form = [url |-> [kind |-> "none"], honeypot |-> ""]
    /\ pc = "start"
    /\ responses = <<>>
    /\ fetches = <<>>
    /\ src = [kind |-> "none", code |-> "", content_type |-> <<>>]

MainNext ==
    \/ \E f \in Forms : main(f)
    \/ \E answer \in Sources : scramble(answer)

SpecMain == MainInit /\ [][MainNext]_vars

-----------------------------------------------------------------------------
(* Claims about main() and scramble(url) *)

\* The URL of the request that main() has taken up
TheUrl == requested_url(form)

Served == pc /= "start" /\ TheUrl.kind = "absolute"

HoneypotMode == form.honeypot /= ""

\* The access policy of the mode, on the host name of the URL
PassesPolicy ==
    IF HoneypotMode
    THEN hostname(TheUrl) = "localhost"
    ELSE hostname(TheUrl) \in {"localhost"} \cup { environ.SCRAMBLER_ALLOWLIST[i] : i \in 1..Len(environ.SCRAMBLER_ALLOWLIST) }

Statuses == [i \in 1..Len(responses) |-> responses[i].status]

Unsupported(answer) ==
    /\ answer.kind = "response"
    /\ answer.content_type[1] /= "text/"
    /\ ~(answer.content_type[1] = "application/" /\ answer.content_type[2] = "xhtml+xml"
         /\ (Len(answer.content_type) = 2 \/ answer.content_type[3] = ";"))

\* C13: when the fetched document is of a type that is neither HTML or XHTML
\* nor text/*, scramble(url) prints exactly one response and no scrambled
\* page: the 403 'blocked' in honeypot mode, the 303 redirect to the URL
\* otherwise; and the Scrambler objects are left alone.
C13_UnsupportedContentType ==
    [][pc = "urlopen" /\ Unsupported(src') =>
          /\ Len(responses') = Len(responses) + 1
          /\ SubSeq(responses', 1, Len(responses)) = responses
          /\ LET r == responses'[Len(responses')]
             IN  IF HoneypotMode
                 THEN r.status = "403" /\ r.kind = "error" /\ r.location.kind = "none"
                 ELSE r.status = "303" /\ r.kind = "redirect" /\ r.location = TheUrl
          /\ UNCHANGED <<scrVars, htmlVars>>]_vars

\* C13 witness: in honeypot mode a PNG image was fetched and blocked.
C13_Witness ==
    /\ pc = "done" /\ HoneypotMode
    /\ src.kind = "response" /\ src.content_type = <<"image/", "png">>
    /\ Len(fetches) = 1
    /\ responses = <<scrambler_error("403", <<"Access to this file has been blocked.">>)>>

\* The messages of the error responses of main()
MainErrors ==
    { <<"ValueError">>, <<"cannot scramble itself">>, <<"Unsupported URL scheme">>,
      <<"Invalid port">>, <<"not on the allowlist">> }

\* C20: a request gets one response at most, and once main() has printed an
\* error response, the 403 for a URL of the Scrambler itself among them, the
\* URL is not fetched.
C20_OneResponsePerRequest ==
    /\ Len(responses) <= 1
    /\ (\E i \in 1..Len(responses) :
           responses[i].kind = "error" /\ responses[i].message \in MainErrors)
          => fetches = <<>>

====
